---- MODULE Spec2Model ----
\* Model of src/bot.py: the command handlers of the Telegram control bot and the
\* gates wrapped around them (rate_limit, circuit_breaker, is_authorized), the
\* file operations of the command bodies, and the replies and audit records
\* each handler produces.
EXTENDS Integers, Sequences, FiniteSets, TLC

\* ---------------------------------------------------------------- constants
RATE_LIMIT_COMMANDS == 10
RATE_LIMIT_WINDOW == 60
CIRCUIT_BREAKER_THRESHOLD == 5
CIRCUIT_BREAKER_TIMEOUT == 300
MAX_TASK_DESCRIPTION_LENGTH == 500

\* Identities the transport delivers (update.effective_user.id, an int).
Operator == 42
Stranger == 7
Users == {Operator, Stranger}

\* ------------------------------------------------------------------ bounds
\* Index of the last clock reading of the time grid the clock may move to.
MaxTick == 4
\* The same, for the runs that exercise the rate limiter alone.
MaxRateTick == 2
\* Number of Task Record files the tasks directory may hold in the model.
MaxTasks == 1

\* Length up to which every text over SampleChars is handed to the sanitizer.
MaxLen == 3

\* Number of handler coroutines that may be in flight at once.
MaxHandlers == 2

\* The clock starts at a positive reading (time.time() is never 0).
StartTime == 1

\* Clock readings: per epoch of CIRCUIT_BREAKER_TIMEOUT seconds, the start, one
\* second before and exactly one window later, and one second before the next
\* epoch, so that both sides of every "<" of the gates are exercised.
GridOffsets == <<0, RATE_LIMIT_WINDOW - 1, RATE_LIMIT_WINDOW, CIRCUIT_BREAKER_TIMEOUT - 1>>

TimePoint(i) == StartTime + (i \div 4) * CIRCUIT_BREAKER_TIMEOUT + GridOffsets[(i % 4) + 1]

TimePoints == {TimePoint(i) : i \in 0..MaxTick}

\* The readings around one rate-limit window.
RatePoints == {TimePoint(i) : i \in 0..MaxRateTick}

\* The readings around the breaker's cooldown: an epoch's start and the second before it.
BreakerPoints == {TimePoint(i) : i \in {j \in 0..MaxTick : j % 4 \in {0, 3}}}

\* The starts of the epochs.
EpochPoints == {TimePoint(i) : i \in {j \in 0..MaxTick : j % 4 = 0}}

\* ------------------------------------------------------------------- state
VARIABLES
    now,                        \* the clock: time.time() / datetime.now()
    rate_limit_data,            \* identity -> list of timestamps
    circuit_breaker_failures,   \* int
    circuit_breaker_opened_at,  \* None or a timestamp
    files,                      \* the four configured paths on disk
    out,                        \* what the last handled command did
    accepted,                   \* identity -> times of the calls the limiter let through
    streak,                     \* consecutive failed invocations of the wrapped operation
    env,                        \* the environment variables the module reads
    phase,                      \* main(): "starting", "serving" or "exited"
    inflight,                   \* handler -> where its coroutine is suspended
    probe                       \* a text, and what the sanitizer made of it

vars == <<now, rate_limit_data, circuit_breaker_failures, circuit_breaker_opened_at,
          files, out, accepted, streak, env, phase, inflight, probe>>

\* Optional[T]: None is the empty tuple, a value v is <<v>>.
None == <<>>

\* ------------------------------------------------------------ configuration
\* os.getenv(name): None when the variable is unset, else its string. A string
\* is the sequence of its characters (of its decimal digits, for the identity).
TELEGRAM_BOT_TOKEN == env.TELEGRAM_BOT_TOKEN

AUTHORIZED_USER_ID == env.TELEGRAM_USER_ID

\* Path(os.getenv(name, '')): an unset and an empty variable both give Path(''),
\* whose str() is '.'.
PathStr(v) == IF v = None \/ v[1] = <<>> THEN <<".">> ELSE v[1]

STATUS_FILE == PathStr(env.CLAUDE_STATUS_FILE)
APPROVAL_FILE == PathStr(env.CLAUDE_APPROVAL_FILE)
RESPONSE_FILE == PathStr(env.CLAUDE_RESPONSE_FILE)
TASKS_DIR == PathStr(env.CLAUDE_TASKS_DIR)

\* `not x` for an Optional[str]: None and the empty string are false.
Unset(x) == x = None \/ x[1] = <<>>

\* A path test that takes every Path for a configured one (a Path is truthy).
PathAlwaysSet(path) == FALSE

\* not P or str(P) == '.'
PathUnset(path) == path = <<".">>

\* validate_configuration: the errors it collects.
ConfigErrors ==
    {e \in {"TELEGRAM_BOT_TOKEN", "TELEGRAM_USER_ID", "CLAUDE_STATUS_FILE",
             "CLAUDE_APPROVAL_FILE", "CLAUDE_RESPONSE_FILE", "CLAUDE_TASKS_DIR"} :
        CASE e = "TELEGRAM_BOT_TOKEN" -> Unset(TELEGRAM_BOT_TOKEN)
          [] e = "TELEGRAM_USER_ID" -> Unset(AUTHORIZED_USER_ID)
          [] e = "CLAUDE_STATUS_FILE" -> PathUnset(STATUS_FILE)
          [] e = "CLAUDE_APPROVAL_FILE" -> PathUnset(APPROVAL_FILE)
          [] e = "CLAUDE_RESPONSE_FILE" -> PathUnset(RESPONSE_FILE)
          [] e = "CLAUDE_TASKS_DIR" -> PathUnset(TASKS_DIR)}

\* The deployment the other specifications run in: identity "42", all paths set.
Deployed ==
    [TELEGRAM_BOT_TOKEN |-> << <<"k">> >>, TELEGRAM_USER_ID |-> << <<4, 2>> >>,
     CLAUDE_STATUS_FILE |-> << <<"s">> >>, CLAUDE_APPROVAL_FILE |-> << <<"a">> >>,
     CLAUDE_RESPONSE_FILE |-> << <<"r">> >>, CLAUDE_TASKS_DIR |-> << <<"t">> >>]

\* The environments a deployment may start in: each variable unset, empty or set.
Settings(name) == {None, << <<>> >>, Deployed[name]}

Environments ==
    {[TELEGRAM_BOT_TOKEN |-> k, TELEGRAM_USER_ID |-> u, CLAUDE_STATUS_FILE |-> s,
      CLAUDE_APPROVAL_FILE |-> a, CLAUDE_RESPONSE_FILE |-> r, CLAUDE_TASKS_DIR |-> t] :
        k \in Settings("TELEGRAM_BOT_TOKEN"), u \in Settings("TELEGRAM_USER_ID"),
        s \in Settings("CLAUDE_STATUS_FILE"), a \in Settings("CLAUDE_APPROVAL_FILE"),
        r \in Settings("CLAUDE_RESPONSE_FILE"), t \in Settings("CLAUDE_TASKS_DIR")}

\* Python truthiness of an Optional[float]: None and 0.0 are both false.
Truthy(x) == x # None /\ x[1] # 0

\* ------------------------------------------------------------ audit records
AuditRec(event, user_id, success) ==
    [event |-> event, user |-> user_id, success |-> success]

\* ----------------------------------------------------------- authorization
RECURSIVE Digits(_)
Digits(n) == IF n < 10 THEN <<n>> ELSE Append(Digits(n \div 10), n % 10)

\* str(user_id) for a non-negative int.
Str(n) == Digits(n)

\* str(user_id) == AUTHORIZED_USER_ID; no string equals None.
IsAuthorizedEq(user_id) ==
    AUTHORIZED_USER_ID # None /\ Str(user_id) = AUTHORIZED_USER_ID[1]

\* ------------------------------------------------------ handler bookkeeping
\* The running result of a handler: files on disk, replies delivered, audit
\* records written, file operations performed, number of reply_text calls made,
\* the exception that is propagating ("none" if none), and the gates reached.
Begin(fs) ==
    [files |-> fs, replies |-> <<>>, audits |-> <<>>, ops |-> <<>>,
     sends |-> 0, sendFail |-> FALSE, fileErr |-> "none",
     raised |-> "none", trace |-> <<>>]

audit_log(b, event, user_id, success) ==
    [b EXCEPT !.audits = Append(@, AuditRec(event, user_id, success))]

\* update.message.reply_text: the transport delivers the text or raises.
\* inp.send[k] tells whether the k-th reply_text call of this handler succeeds.
reply_text(b, msg, inp) ==
    LET k == b.sends + 1 IN
    IF inp.send[k]
    THEN [b EXCEPT !.sends = k, !.replies = Append(@, msg)]
    ELSE [b EXCEPT !.sends = k, !.sendFail = TRUE, !.raised = "NetworkError"]

Reach(b, gate) == [b EXCEPT !.trace = Append(@, gate)]

\* is_authorized: the comparison and, when it fails, the audit record.
is_authorized(b, user_id) ==
    IF IsAuthorizedEq(user_id)
    THEN Reach(b, "AUTH")
    ELSE audit_log(Reach(b, "AUTH"), "UNAUTHORIZED_ACCESS", user_id, FALSE)

\* -------------------------------------------------------------------- files
\* What a path holds: nothing (ABSENT), text written by the external agent
\* (TEXT), what a write that failed after opening left behind (TRUNCATED), or
\* what this program wrote.
File(kind) == [kind |-> kind, desc |-> <<>>, ref |-> 0]

Absent == File("ABSENT")

\* A Status Document that does not say which Task Record it is about.
StatusContentUnnamed(description, name) == [kind |-> "NEWTASK", desc |-> description, ref |-> 0]

StatusContent(description, name) == [kind |-> "NEWTASK", desc |-> description, ref |-> name]

TaskContent(description, user_id) == [kind |-> "TASK", desc |-> description, ref |-> user_id]

\* The failure injected into this command's file operations, if any: the
\* operation it hits and the error. The first failing operation ends the try
\* block, so one fault per command covers every outcome.
NoFault == [op |-> "none", kind |-> "none"]

Fault(op, kind) == [op |-> op, kind |-> kind]

\* The Python exception class of each file error.
ExcClass(kind) ==
    CASE kind = "NotFound" -> "FileNotFoundError"
      [] kind = "TooLarge" -> "ValueError"
      [] kind = "InvalidEncoding" -> "ValueError"
      [] kind = "TimedOut" -> "TimeoutError"
      [] OTHER -> "OSError"

ReadErrors == {"NotFound", "TooLarge", "InvalidEncoding", "TimedOut"}
WriteErrors == {"TimedOut", "OSError"}

SetFile(fs, path, content) == [fs EXCEPT ![path] = content]

\* safe_read_file on `path` (status or approval). A NotFound is the file
\* vanishing between the caller's exists() and the read.
safe_read_file(b, path, op, inp) ==
    LET c == [b EXCEPT !.ops = Append(@, op)] IN
    IF inp.fault.op = op
    THEN [c EXCEPT !.raised = ExcClass(inp.fault.kind),
                   !.fileErr = inp.fault.kind,
                   !.files = IF inp.fault.kind = "NotFound"
                             THEN SetFile(@, path, Absent) ELSE @]
    ELSE c

\* What write_text leaves when it fails: the old file if the failure came before
\* the open, a truncated file if it came after.
AfterFailedWrite(old, inp) == IF inp.trunc THEN File("TRUNCATED") ELSE old

\* safe_write_file on one of the fixed paths (status, response).
safe_write_file(b, path, content, op, inp) ==
    LET c == [b EXCEPT !.ops = Append(@, op)] IN
    IF inp.fault.op = op
    THEN [c EXCEPT !.raised = ExcClass(inp.fault.kind),
                   !.fileErr = inp.fault.kind,
                   !.files = SetFile(@, path, AfterFailedWrite(@[path], inp))]
    ELSE [c EXCEPT !.files = SetFile(@, path, content)]

\* An exception caught by an except clause stops propagating.
Caught(b) == [b EXCEPT !.raised = "none"]

Msg(kind) == [kind |-> kind, ref |-> 0]

\* safe_error_message: the fixed text, whatever the exception.
safe_error_message == Msg("SafeError")

\* ----------------------------------------------------------- command bodies
\* start, after the rate limiter.
start(b0, user_id, inp) ==
    LET a == is_authorized(b0, user_id) IN
    IF ~IsAuthorizedEq(user_id)
    THEN reply_text(a, Msg("Unauthorized"), inp)
    ELSE reply_text(audit_log(Reach(a, "BODY"), "START", user_id, TRUE), Msg("Help"), inp)

ping(b0, user_id, inp) ==
    LET a == is_authorized(b0, user_id) IN
    IF ~IsAuthorizedEq(user_id)
    THEN a
    ELSE reply_text(audit_log(Reach(a, "BODY"), "PING", user_id, TRUE), Msg("Pong"), inp)

status(b0, user_id, inp) ==
    LET a == is_authorized(b0, user_id) IN
    IF ~IsAuthorizedEq(user_id) THEN a ELSE
    LET b1 == Reach(a, "BODY")
        r == IF b1.files.status # Absent
             THEN safe_read_file(b1, "status", "read_status", inp) ELSE b1
        msg == IF r.files.approval # Absent THEN Msg("StatusPending") ELSE Msg("Status")
        OnError(x) == reply_text(audit_log(Caught(x), "STATUS_ERROR", user_id, FALSE),
                                 safe_error_message, inp)
        OnTimeout(x) == reply_text(audit_log(Caught(x), "STATUS_TIMEOUT", user_id, FALSE),
                                   Msg("StatusTimedOut"), inp)
    IN  IF r.raised = "TimeoutError" THEN OnTimeout(r)
        ELSE IF r.raised # "none" THEN OnError(r)
        ELSE LET s == reply_text(audit_log(r, "STATUS_CHECK", user_id, TRUE), msg, inp)
             IN IF s.raised # "none" THEN OnError(s) ELSE s

\* approve and reject differ only in the token, the audit event and the reply.
Decide(b0, user_id, inp, token, event, answer) ==
    LET a == is_authorized(b0, user_id) IN
    IF ~IsAuthorizedEq(user_id) THEN a ELSE
    LET b1 == Reach(a, "BODY")
        OnError(x) == reply_text(audit_log(Caught(x), "APPROVAL_ERROR", user_id, FALSE),
                                 safe_error_message, inp)
    IN  IF b1.files.approval = Absent
        THEN LET s == reply_text(b1, Msg("NoPending"), inp)
             IN IF s.raised # "none" THEN OnError(s) ELSE s
        ELSE
        LET r1 == safe_read_file(b1, "approval", "read_approval", inp) IN
        IF r1.raised # "none" THEN OnError(r1) ELSE
        LET r2 == safe_write_file(r1, "response", File(token), "write_response", inp) IN
        IF r2.raised # "none" THEN OnError(r2) ELSE
        LET r3 == [r2 EXCEPT !.ops = Append(@, "unlink_approval")] IN
        IF inp.fault.op = "unlink_approval"
        THEN OnError([r3 EXCEPT !.raised = "OSError", !.fileErr = inp.fault.kind]) ELSE
        LET r4 == [r3 EXCEPT !.files = SetFile(@, "approval", Absent)]
            s == reply_text(audit_log(r4, event, user_id, TRUE), Msg(answer), inp)
        IN IF s.raised # "none" THEN OnError(s) ELSE s

\* An approve that does not look whether a request is pending.
ApproveUnasked(b0, user_id, inp) ==
    Decide([b0 EXCEPT !.files.approval = File("TEXT")], user_id, inp,
           "APPROVED", "APPROVAL_GRANTED", "Approved")

approve(b0, user_id, inp) ==
    Decide(b0, user_id, inp, "APPROVED", "APPROVAL_GRANTED", "Approved")

\* A reject that writes approve's token.
RejectWritesApproved(b0, user_id, inp) ==
    Decide(b0, user_id, inp, "APPROVED", "APPROVAL_REJECTED", "Rejected")

reject(b0, user_id, inp) ==
    Decide(b0, user_id, inp, "REJECTED", "APPROVAL_REJECTED", "Rejected")

\* ---------------------------------------------------------------- sanitizer
\* Characters are one-character strings; a text is a sequence of them.
Letters == {"a", "b", "Z"}
DigitChars == {"1"}
Whitespace == {" ", "\t", "\n"}
Punctuation == {"-", "_", ".", ",", "!", "?"}

\* ALLOWED_TASK_CHARS: ^[a-zA-Z0-9\s\-_.,!?]+$
AllowedChars == Letters \cup DigitChars \cup Whitespace \cup Punctuation

\* str.strip(): leading, then trailing whitespace removed.
RECURSIVE LStrip(_)
LStrip(s) == IF s = <<>> \/ s[1] \notin Whitespace THEN s ELSE LStrip(Tail(s))

RECURSIVE RStrip(_)
RStrip(s) ==
    IF s = <<>> \/ s[Len(s)] \notin Whitespace THEN s
    ELSE RStrip(SubSeq(s, 1, Len(s) - 1))

Strip(s) == RStrip(LStrip(s))

\* ' '.join(context.args)
RECURSIVE Join(_)
Join(args) ==
    IF args = <<>> THEN <<>>
    ELSE IF Len(args) = 1 THEN args[1]
    ELSE args[1] \o <<" ">> \o Join(Tail(args))

Contains(s, ch) == \E i \in 1..Len(s) : s[i] = ch

\* A test for ".." that finds none.
NeverDotDot(s) == FALSE

ContainsDotDot(s) == \E i \in 1..(Len(s) - 1) : s[i] = "." /\ s[i + 1] = "."

\* ALLOWED_TASK_CHARS.match(description): one or more characters, all allowed.
MatchesAllowed(s) == Len(s) >= 1 /\ \A i \in 1..Len(s) : s[i] \in AllowedChars

\* sanitize_task_description: the value, or the ValueError it raises.
sanitize_task_description(description) ==
    LET d == Strip(description) IN
    IF Len(d) > MAX_TASK_DESCRIPTION_LENGTH
    THEN [ok |-> FALSE, value |-> <<>>, error |-> "TooLong"]
    ELSE IF ~MatchesAllowed(d)
    THEN [ok |-> FALSE, value |-> <<>>, error |-> "ForbiddenChars"]
    ELSE IF Contains(d, "/") \/ Contains(d, "\\") \/ ContainsDotDot(d)
    THEN [ok |-> FALSE, value |-> <<>>, error |-> "PathTraversal"]
    ELSE [ok |-> TRUE, value |-> d, error |-> "none"]

\* --------------------------------------------------------------- create_task
\* safe_write_file on the Task Record telegram_<timestamp>.md; the name is the
\* clock reading.
safe_write_task(b, name, content, inp) ==
    LET c == [b EXCEPT !.ops = Append(@, "write_task")]
        old == IF name \in DOMAIN c.files.tasks THEN c.files.tasks[name] ELSE Absent
        left == AfterFailedWrite(old, inp)
    IN
    IF inp.fault.op = "write_task"
    THEN [c EXCEPT !.raised = ExcClass(inp.fault.kind),
                   !.fileErr = inp.fault.kind,
                   !.files.tasks = IF left = Absent THEN @ ELSE (name :> left) @@ @]
    ELSE [c EXCEPT !.files.tasks = (name :> content) @@ @]

create_task(b0, user_id, inp) ==
    LET a == is_authorized(b0, user_id) IN
    IF ~IsAuthorizedEq(user_id) THEN a ELSE
    LET b1 == Reach(a, "BODY")
        OnValue(x, text) ==
            reply_text(audit_log(Caught(x), "TASK_VALIDATION_FAILED", user_id, FALSE),
                       Msg(text), inp)
        OnTimeout(x) ==
            reply_text(audit_log(Caught(x), "TASK_TIMEOUT", user_id, FALSE),
                       Msg("TaskTimedOut"), inp)
        OnError(x) ==
            reply_text(audit_log(Caught(x), "TASK_ERROR", user_id, FALSE),
                       safe_error_message, inp)
        Except(x) == IF x.raised = "TimeoutError" THEN OnTimeout(x) ELSE OnError(x)
    IN  IF inp.args = <<>> THEN reply_text(b1, Msg("Usage"), inp) ELSE
        LET clean == sanitize_task_description(Join(inp.args)) IN
        IF ~clean.ok
        THEN OnValue([b1 EXCEPT !.raised = "ValueError"], clean.error) ELSE
        LET m == [b1 EXCEPT !.ops = Append(@, "mkdir")] IN
        IF inp.fault.op = "mkdir"
        THEN OnError([m EXCEPT !.raised = "OSError", !.fileErr = inp.fault.kind]) ELSE
        LET name == now
            w1 == safe_write_task(m, name, TaskContent(clean.value, user_id), inp)
        IN
        IF w1.raised # "none" THEN Except(w1) ELSE
        LET w2 == safe_write_file(w1, "status", StatusContent(clean.value, name),
                                  "write_status", inp)
        IN
        IF w2.raised # "none" THEN Except(w2) ELSE
        LET s == reply_text(audit_log(w2, "TASK_CREATED", user_id, TRUE),
                            [kind |-> "TaskCreated", ref |-> name], inp)
        IN IF s.raised # "none" THEN OnError(s) ELSE s

\* -------------------------------------------------------------------- gates
BreakerCmds == {"status", "task", "approve", "reject"}
Cmds == {"start", "ping"} \cup BreakerCmds

\* The decorated function: the command body.
Body(c, b, user_id, inp) ==
    CASE c = "start" -> start(b, user_id, inp)
      [] c = "ping" -> ping(b, user_id, inp)
      [] c = "status" -> status(b, user_id, inp)
      [] c = "task" -> create_task(b, user_id, inp)
      [] c = "approve" -> approve(b, user_id, inp)
      [] c = "reject" -> reject(b, user_id, inp)

\* A cooldown that also covers the instant the timeout elapses.
InCooldownInclusive(opened_at, t) == t - opened_at[1] <= CIRCUIT_BREAKER_TIMEOUT

\* time_since_open < CIRCUIT_BREAKER_TIMEOUT
InCooldown(opened_at, t) == t - opened_at[1] < CIRCUIT_BREAKER_TIMEOUT

\* A threshold test that is off by one.
TrippedLate(failures) == failures > CIRCUIT_BREAKER_THRESHOLD

\* circuit_breaker_failures >= CIRCUIT_BREAKER_THRESHOLD
Tripped(failures) == failures >= CIRCUIT_BREAKER_THRESHOLD

\* A reset after the timeout that forgets to clear the failure counter.
CounterKept(open) == circuit_breaker_failures

\* The failure counter the call starts from: cleared when the timeout has elapsed.
CounterAtCall(open) == IF open THEN 0 ELSE circuit_breaker_failures

\* A reset after the timeout that forgets to clear the open-timestamp.
OpenedKept(open) == circuit_breaker_opened_at

\* The open-timestamp the call starts from: cleared when the timeout has elapsed.
OpenedAtCall(open) == IF open THEN None ELSE circuit_breaker_opened_at

\* A success that leaves the failure counter as it found it.
CounterUntouched(f0) == f0

\* The failure counter after the wrapped function returned: reset.
CounterAfterSuccess(f0) == 0

\* circuit_breaker's wrapper around the body of command c.
circuit_breaker(c, b0, user_id, inp) ==
    LET b1 == Reach(b0, "BREAKER")
        open == Truthy(circuit_breaker_opened_at)
    IN
    IF open /\ InCooldown(circuit_breaker_opened_at, now)
    THEN [b |-> [b1 EXCEPT !.raised = "CircuitBreakerOpen"],
          failures |-> circuit_breaker_failures,
          opened_at |-> circuit_breaker_opened_at,
          branch |-> "open"]
    ELSE
    LET f0 == CounterAtCall(open)
        o0 == OpenedAtCall(open)
        r == Body(c, b1, user_id, inp)
        branch == IF open THEN "reset" ELSE "closed"
    IN
    IF r.raised = "none"
    THEN [b |-> r, failures |-> CounterAfterSuccess(f0), opened_at |-> o0,
          branch |-> branch]
    ELSE IF Tripped(f0 + 1)
    THEN [b |-> audit_log(r, "CIRCUIT_BREAKER_OPEN", 0, FALSE),
          failures |-> f0 + 1, opened_at |-> <<now>>, branch |-> branch]
    ELSE [b |-> r, failures |-> f0 + 1, opened_at |-> o0, branch |-> branch]

\* The entries rate_limit keeps: now - timestamp < RATE_LIMIT_WINDOW
Fresh(window, t) == SelectSeq(window, LAMBDA ts : t - ts < RATE_LIMIT_WINDOW)

\* A limit test that is off by one.
OverLimitLate(window) == Len(window) > RATE_LIMIT_COMMANDS

\* len(rate_limit_data[user_id]) >= RATE_LIMIT_COMMANDS
OverLimit(window) == Len(window) >= RATE_LIMIT_COMMANDS

\* rate_limit's wrapper, the outermost decorator of every command.
rate_limit(c, user_id, inp) ==
    LET b1 == Reach(Begin(files), "RATE")
        kept == Fresh(rate_limit_data[user_id], now)
    IN
    IF OverLimit(kept)
    THEN LET s == reply_text(audit_log(b1, "RATE_LIMIT_EXCEEDED", user_id, FALSE),
                             Msg("RateLimited"), inp)
         IN [b |-> IF s.raised = "none"
                   THEN [s EXCEPT !.raised = "RateLimitException"] ELSE s,
             window |-> kept,
             failures |-> circuit_breaker_failures,
             opened_at |-> circuit_breaker_opened_at,
             branch |-> "none"]
    ELSE IF c \in BreakerCmds
    THEN LET r == circuit_breaker(c, b1, user_id, inp)
         IN [b |-> r.b, window |-> Append(kept, now), failures |-> r.failures,
             opened_at |-> r.opened_at, branch |-> r.branch]
    ELSE [b |-> Body(c, b1, user_id, inp), window |-> Append(kept, now),
          failures |-> circuit_breaker_failures,
          opened_at |-> circuit_breaker_opened_at,
          branch |-> "none"]

\* ------------------------------------------------------------------- inputs
\* Outcomes of the reply_text calls of one handler (a handler makes a second
\* call only after its first one raised): the transport works, it fails once
\* and recovers, or it is down.
Up == <<TRUE, TRUE>>
Flaky == <<FALSE, TRUE>>
Down == <<FALSE, FALSE>>
Sends == {Up, Flaky, Down}

\* The file operations each command performs and the errors each can raise.
FaultsOf(c) ==
    CASE c = "status" -> {Fault("read_status", k) : k \in ReadErrors}
      [] c \in {"approve", "reject"} ->
            {Fault("read_approval", k) : k \in ReadErrors}
            \cup {Fault("write_response", k) : k \in WriteErrors}
            \cup {Fault("unlink_approval", "OSError")}
      [] c = "task" ->
            {Fault("mkdir", "OSError")}
            \cup {Fault("write_task", k) : k \in WriteErrors}
            \cup {Fault("write_status", k) : k \in WriteErrors}
      [] OTHER -> {}

WriteOps == {"write_response", "write_task", "write_status"}

\* A fault and, for a failed write, whether it came after the file was opened.
FaultChoices(c) ==
    {<<NoFault, FALSE>>} \cup
    UNION { {<<f, t>> : t \in IF f.op \in WriteOps THEN BOOLEAN ELSE {FALSE}} :
            f \in FaultsOf(c) }

\* context.args of /task: no argument, "a b", "Z", "a;", "a..b", "/a", and one
\* of MAX_TASK_DESCRIPTION_LENGTH + 1 characters.
ArgSamples ==
    { <<>>,
      << <<"a">>, <<"b">> >>,
      << <<"Z">> >>,
      << <<"a", ";">> >>,
      << <<"a", ".", ".", "b">> >>,
      << <<"/", "a">> >>,
      << [i \in 1..(MAX_TASK_DESCRIPTION_LENGTH + 1) |-> "a"] >> }

\* The samples the sanitizer accepts: only their commands get to the file writes.
AcceptedArgSamples ==
    {a \in ArgSamples : a # <<>> /\ sanitize_task_description(Join(a)).ok}

\* A fault is drawn only for an operation the command can get to: the writes of
\* /task follow an accepted description.
FaultsAndArgsOf(c) ==
    IF c = "task"
    THEN ({<<NoFault, FALSE>>} \X ArgSamples)
         \cup ((FaultChoices(c) \ {<<NoFault, FALSE>>}) \X AcceptedArgSamples)
    ELSE FaultChoices(c) \X {<<>>}

FaultsAndArgs == [c \in Cmds |-> FaultsAndArgsOf(c)]

\* One command's input: the transport's behaviour, the fault, context.args.
Input(s, fa) == [send |-> s, fault |-> fa[1][1], trunc |-> fa[1][2], args |-> fa[2]]

\* ... and a read fault only for a file that exists.
Applies(inp) ==
    /\ inp.fault.op = "read_status" => files.status # Absent
    /\ inp.fault.op \in {"read_approval", "write_response", "unlink_approval"}
          => files.approval # Absent

\* ---------------------------------------------------------------- the state
\* out: the identity and command handled last, the gates it reached, the
\* breaker's branch, its replies, audit records and file operations, the
\* exception that left the handler, its context.args and the failure counter
\* it found.
NoCommand ==
    [user |-> 0, cmd |-> "none", trace |-> <<>>, branch |-> "none",
     replies |-> <<>>, audits |-> <<>>, ops |-> <<>>, raised |-> "none",
     fileErr |-> "none", sendFail |-> FALSE, args |-> <<>>, counter |-> 0]

\* The handler coroutines the event loop may have in flight.
Handlers == 1..MaxHandlers

\* A coroutine that is not running, and one suspended at an await of rate_limit's
\* wrapper: pc tells which, `at` is the wrapper's local `now`.
Idle == [pc |-> "idle", user |-> 0, at |-> 0]

Suspended(pc, user_id, t) == [pc |-> pc, user |-> user_id, at |-> t]

\* No text has been handed to the sanitizer.
NoProbe == [text |-> <<>>, result |-> None, again |-> None]

Init ==
    /\ now = StartTime
    /\ rate_limit_data = [u \in Users |-> <<>>]
    /\ circuit_breaker_failures = 0
    /\ circuit_breaker_opened_at = None
    /\ files = [status |-> Absent, approval |-> Absent, response |-> Absent,
                tasks |-> <<>>]
    /\ out = NoCommand
    /\ accepted = [u \in Users |-> <<>>]
    /\ streak = 0
    /\ env = Deployed
    /\ phase = "serving"
    /\ inflight = [h \in Handlers |-> Idle]
    /\ probe = NoProbe

\* The Task Records directory holds at most MaxTasks files.
TaskRoom(c) == c = "task" => Cardinality(DOMAIN files.tasks \cup {now}) <= MaxTasks

\* What a finished handler leaves in `out`.
Report(user_id, c, b, branch, inp) ==
    [user |-> user_id, cmd |-> c, trace |-> b.trace, branch |-> branch,
     replies |-> b.replies, audits |-> b.audits, ops |-> b.ops, raised |-> b.raised,
     fileErr |-> b.fileErr, sendFail |-> b.sendFail,
     args |-> inp.args, counter |-> circuit_breaker_failures]

\* One inbound command, handled to the end: the decorated handler
\* rate_limit(circuit_breaker(body)) or rate_limit(body).
Handle(user_id, c, inp) ==
    /\ phase = "serving"
    /\ \E r \in {rate_limit(c, user_id, inp)} :
       LET invoked == r.branch \in {"closed", "reset"}
       IN
       /\ rate_limit_data' = [rate_limit_data EXCEPT ![user_id] = r.window]
       /\ circuit_breaker_failures' = r.failures
       /\ circuit_breaker_opened_at' = r.opened_at
       /\ files' = r.b.files
       /\ out' = Report(user_id, c, r.b, r.branch, inp)
       /\ accepted' = IF Len(r.b.trace) > 1
                      THEN [accepted EXCEPT ![user_id] = Append(@, now)]
                      ELSE accepted
       /\ streak' = IF ~invoked THEN streak
                    ELSE IF r.b.raised = "none" THEN 0
                    ELSE IF r.branch = "reset" THEN 1
                    ELSE streak + 1
    /\ UNCHANGED <<now, env, phase, inflight, probe>>

\* The clock moves on to a later reading. The record of accepted calls keeps
\* those of the trailing window (t - RATE_LIMIT_WINDOW, t].
Tick(grid) ==
    /\ \E t \in grid :
        /\ t > now
        /\ now' = t
        /\ accepted' = [u \in Users |->
                          SelectSeq(accepted[u], LAMBDA ts : t - ts < RATE_LIMIT_WINDOW)]
    /\ UNCHANGED <<rate_limit_data, circuit_breaker_failures,
                   circuit_breaker_opened_at, files, out, streak, env, phase,
                   inflight, probe>>

\* The external agent asks for an approval: it creates the Approval Request.
AgentRequest ==
    /\ files.approval = Absent
    /\ files' = [files EXCEPT !.approval = File("TEXT")]
    /\ UNCHANGED <<now, rate_limit_data, circuit_breaker_failures,
                   circuit_breaker_opened_at, out, accepted, streak, env, phase,
                   inflight, probe>>

\* The external agent reports progress to the Status Document.
AgentReport ==
    /\ files.status # File("TEXT")
    /\ files' = [files EXCEPT !.status = File("TEXT")]
    /\ UNCHANGED <<now, rate_limit_data, circuit_breaker_failures,
                   circuit_breaker_opened_at, out, accepted, streak, env, phase,
                   inflight, probe>>

\* ------------------------------------------------- the sanitizer on its own
\* Characters of every kind the checks tell apart: a letter, whitespace, a
\* forbidden character, the dot and the two path separators.
SampleChars == {"a", " ", "\t", ";", ".", "/", "\\"}

RECURSIVE TextsOfLen(_)
TextsOfLen(n) ==
    IF n = 0 THEN {<<>>}
    ELSE {Append(t, ch) : t \in TextsOfLen(n - 1), ch \in SampleChars}

\* n letters.
Run(n) == [i \in 1..n |-> "a"]

\* Texts around MAX_TASK_DESCRIPTION_LENGTH: exactly at and one over the limit,
\* over it only until trimmed, and at or over it with a second violation.
LongTexts ==
    LET M == MAX_TASK_DESCRIPTION_LENGTH IN
    { Run(M), Run(M + 1),
      <<" ">> \o Run(M) \o <<"\t">>,
      Run(M) \o <<";">>, Run(M - 1) \o <<";">>,
      Run(M - 1) \o <<".", ".">>, Run(M - 2) \o <<".", ".">> }

Texts == UNION {TextsOfLen(n) : n \in 0..MaxLen} \cup LongTexts

\* A text is about to be sanitized.
SanitizeInit ==
    /\ now = StartTime
    /\ rate_limit_data = [u \in Users |-> <<>>]
    /\ circuit_breaker_failures = 0
    /\ circuit_breaker_opened_at = None
    /\ files = [status |-> Absent, approval |-> Absent, response |-> Absent,
                tasks |-> <<>>]
    /\ out = NoCommand
    /\ accepted = [u \in Users |-> <<>>]
    /\ streak = 0
    /\ env = Deployed
    /\ phase = "serving"
    /\ inflight = [h \in Handlers |-> Idle]
    /\ probe \in {[text |-> t, result |-> None, again |-> None] : t \in Texts}

\* description = sanitize_task_description(raw_description)
Sanitize ==
    /\ probe.result = None
    /\ probe' = [probe EXCEPT !.result = <<sanitize_task_description(probe.text)>>]
    /\ UNCHANGED <<now, rate_limit_data, circuit_breaker_failures,
                   circuit_breaker_opened_at, files, out, accepted, streak, env,
                   phase, inflight>>

\* The accepted text is sanitized once more.
SanitizeAgain ==
    /\ probe.result # None
    /\ probe.result[1].ok
    /\ probe.again = None
    /\ probe' = [probe EXCEPT
                    !.again = <<sanitize_task_description(probe.result[1].value)>>]
    /\ UNCHANGED <<now, rate_limit_data, circuit_breaker_failures,
                   circuit_breaker_opened_at, files, out, accepted, streak, env,
                   phase, inflight>>

\* ------------------------------------------------ handlers that interleave
\* A wrapper that awaits between the check and the append.
SuspendsBeforeAppend(point) == point = "append"

\* Whether rate_limit's wrapper awaits at `point` of its prune-check-append
\* (lines 114-133): it does not, its awaits are the refusal's reply_text and the
\* call of the wrapped function.
Suspends(point) == FALSE

\* The input of a /ping over a working transport.
PlainInput == Input(Up, <<<<NoFault, FALSE>>, <<>>>>)

\* A /ping of identity u is dispatched to coroutine h, which runs up to its first
\* await: the refusal's reply_text, or the call of the wrapped function.
Enter(h, u) ==
    /\ phase = "serving"
    /\ inflight[h] = Idle
    /\ LET kept == Fresh(rate_limit_data[u], now) IN
       IF OverLimit(kept)
       THEN /\ rate_limit_data' = [rate_limit_data EXCEPT ![u] = kept]
            /\ inflight' = [inflight EXCEPT ![h] = Suspended("refused", u, now)]
            /\ accepted' = accepted
       ELSE IF Suspends("append")
       THEN /\ rate_limit_data' = [rate_limit_data EXCEPT ![u] = kept]
            /\ inflight' = [inflight EXCEPT ![h] = Suspended("checked", u, now)]
            /\ accepted' = accepted
       ELSE /\ rate_limit_data' = [rate_limit_data EXCEPT ![u] = Append(kept, now)]
            /\ inflight' = [inflight EXCEPT ![h] = Suspended("running", u, now)]
            /\ accepted' = [accepted EXCEPT ![u] = Append(@, now)]
    /\ UNCHANGED <<now, circuit_breaker_failures, circuit_breaker_opened_at, files,
                   out, streak, env, phase, probe>>

\* The event loop resumes coroutine h, which runs to its end (or, from a
\* suspension before the append, to its next await).
Resume(h) ==
    LET me == inflight[h]
        b1 == Reach(Begin(files), "RATE")
        refusal == [reply_text(audit_log(b1, "RATE_LIMIT_EXCEEDED", me.user, FALSE),
                               Msg("RateLimited"), PlainInput)
                    EXCEPT !.raised = "RateLimitException"]
    IN
    /\ me.pc # "idle"
    /\ CASE me.pc = "checked" ->
              /\ rate_limit_data' = [rate_limit_data EXCEPT ![me.user] = Append(@, me.at)]
              /\ accepted' = IF now - me.at < RATE_LIMIT_WINDOW
                             THEN [accepted EXCEPT ![me.user] = Append(@, me.at)]
                             ELSE accepted
              /\ inflight' = [inflight EXCEPT ![h].pc = "running"]
              /\ out' = out
         [] me.pc = "running" ->
              /\ out' = Report(me.user, "ping", ping(b1, me.user, PlainInput),
                               "none", PlainInput)
              /\ inflight' = [inflight EXCEPT ![h] = Idle]
              /\ UNCHANGED <<rate_limit_data, accepted>>
         [] me.pc = "refused" ->
              /\ out' = Report(me.user, "ping", refusal, "none", PlainInput)
              /\ inflight' = [inflight EXCEPT ![h] = Idle]
              /\ UNCHANGED <<rate_limit_data, accepted>>
    /\ UNCHANGED <<now, circuit_breaker_failures, circuit_breaker_opened_at, files,
                   streak, env, phase, probe>>

\* The process as it is launched, in any environment.
Launch ==
    /\ now = StartTime
    /\ rate_limit_data = [u \in Users |-> <<>>]
    /\ circuit_breaker_failures = 0
    /\ circuit_breaker_opened_at = None
    /\ files = [status |-> Absent, approval |-> Absent, response |-> Absent,
                tasks |-> <<>>]
    /\ out = NoCommand
    /\ accepted = [u \in Users |-> <<>>]
    /\ streak = 0
    /\ env \in Environments
    /\ phase = "starting"
    /\ inflight = [h \in Handlers |-> Idle]
    /\ probe = NoProbe

\* main(): validate_configuration exits the process on any error; otherwise the
\* handlers are registered and polling starts.
Main ==
    /\ phase = "starting"
    /\ phase' = IF ConfigErrors # {} THEN "exited" ELSE "serving"
    /\ UNCHANGED <<now, rate_limit_data, circuit_breaker_failures,
                   circuit_breaker_opened_at, files, out, accepted, streak, env,
                   inflight, probe>>

\* The handlers main() registers, for the identities of US over a transport
\* behaving as SS.
StartCmd(US, SS) ==
    \E u \in US, s \in SS, fa \in FaultsAndArgs["start"] :
        Applies(Input(s, fa)) /\ Handle(u, "start", Input(s, fa))

PingCmd(US, SS) ==
    \E u \in US, s \in SS, fa \in FaultsAndArgs["ping"] :
        Applies(Input(s, fa)) /\ Handle(u, "ping", Input(s, fa))

StatusCmd(US, SS) ==
    \E u \in US, s \in SS, fa \in FaultsAndArgs["status"] :
        Applies(Input(s, fa)) /\ Handle(u, "status", Input(s, fa))

TaskCmd(US, SS) ==
    \E u \in US, s \in SS, fa \in FaultsAndArgs["task"] :
        Applies(Input(s, fa)) /\ TaskRoom("task") /\ Handle(u, "task", Input(s, fa))

ApproveCmd(US, SS) ==
    \E u \in US, s \in SS, fa \in FaultsAndArgs["approve"] :
        Applies(Input(s, fa)) /\ Handle(u, "approve", Input(s, fa))

RejectCmd(US, SS) ==
    \E u \in US, s \in SS, fa \in FaultsAndArgs["reject"] :
        Applies(Input(s, fa)) /\ Handle(u, "reject", Input(s, fa))

\* ------------------------------------------------------------ specifications
\* The rate limiter under /start and /ping from both identities.
RateNext ==
    \/ Tick(RatePoints)
    \/ StartCmd(Users, {Up})
    \/ PingCmd(Users, {Up})

SpecRate == Init /\ [][RateNext]_vars

\* The breaker under the operator's /status, the Status Document written by the agent.
BreakerNext ==
    \/ Tick(BreakerPoints)
    \/ AgentReport
    \/ StatusCmd({Operator}, Sends)

SpecBreaker == Init /\ [][BreakerNext]_vars

\* The gates in front of the commands: /ping and /status from both identities
\* (the breaker wraps /status, not /ping), the transport failing under /status,
\* and the stranger's /approve against the agent's Approval Request.
Next ==
    \/ Tick(EpochPoints)
    \/ AgentReport
    \/ AgentRequest
    \/ PingCmd(Users, {Up})
    \/ StatusCmd(Users, Sends)
    \/ ApproveCmd({Stranger}, {Up})

Spec == Init /\ [][Next]_vars

\* The approval handshake: the agent's requests, the operator's decisions.
DecideNext ==
    \/ Tick(EpochPoints)
    \/ AgentRequest
    \/ ApproveCmd({Operator}, Sends)
    \/ RejectCmd({Operator}, Sends)

SpecDecide == Init /\ [][DecideNext]_vars

\* Startup in every environment, then /start from both identities.
StartupNext ==
    \/ Main
    \/ StartCmd(Users, {Up})

SpecStartup == Launch /\ [][StartupNext]_vars

\* /ping handlers of both identities interleaving at their awaits.
ConcurrentNext ==
    \/ Tick(RatePoints)
    \/ \E h \in Handlers, u \in Users : Enter(h, u)
    \/ \E h \in Handlers : Resume(h)

SpecConcurrent == Init /\ [][ConcurrentNext]_vars

\* The sanitizer applied to each text, and again to what it accepted.
SanitizeNext ==
    \/ Sanitize
    \/ SanitizeAgain

SpecSanitize == SanitizeInit /\ [][SanitizeNext]_vars

\* The operator at work: tasks, approvals and rejections over a working
\* transport, the agent writing the Status Document and the Approval Request.
DeskNext ==
    \/ Tick(EpochPoints)
    \/ AgentReport
    \/ AgentRequest
    \/ TaskCmd({Operator}, {Up})
    \/ ApproveCmd({Operator}, {Up})
    \/ RejectCmd({Operator}, {Up})

SpecDesk == Init /\ [][DeskNext]_vars

\* ------------------------------------------------------------------ claims
InSeq(x, s) == \E i \in 1..Len(s) : s[i] = x

\* This step handled a command the rate limiter let through (it recorded the call).
CallStep == rate_limit_data' # rate_limit_data

\* ... and the command is one of those wrapped by the breaker.
ReachedBreaker == CallStep /\ Len(out'.trace) >= 2 /\ out'.trace[2] = "BREAKER"

\* The breaker is OPEN and t seconds have passed since it opened, t < TIMEOUT.
Cooling ==
    /\ Truthy(circuit_breaker_opened_at)
    /\ now - circuit_breaker_opened_at[1] < CIRCUIT_BREAKER_TIMEOUT

\* The breaker is OPEN and at least TIMEOUT seconds have passed since it opened.
CooledDown ==
    /\ Truthy(circuit_breaker_opened_at)
    /\ now - circuit_breaker_opened_at[1] >= CIRCUIT_BREAKER_TIMEOUT

HasFailureAudit(o) == \E i \in 1..Len(o.audits) : ~o.audits[i].success

\* C1: for every identity, the calls the rate limiter accepted within the
\* trailing window (now - RATE_LIMIT_WINDOW, now] never number more than
\* RATE_LIMIT_COMMANDS, whatever the commands and the (non-decreasing) clock.
C1_RateLimitBound == \A u \in Users : Len(accepted[u]) <= RATE_LIMIT_COMMANDS

\* An identity with RATE_LIMIT_COMMANDS accepted calls spread over two clock
\* readings of one window has just had a further call refused.
C1_Witness ==
    \E u \in Users :
        /\ Len(accepted[u]) = RATE_LIMIT_COMMANDS
        /\ accepted[u][1] < now
        /\ out.user = u
        /\ out.raised = "RateLimitException"

\* A call that reaches the breaker while it is cooling down raises
\* CircuitBreakerOpen and runs nothing of the wrapped handler.
C2_CoolingStep ==
    (Cooling /\ ReachedBreaker) =>
        /\ out'.raised = "CircuitBreakerOpen"
        /\ out'.trace = <<"RATE", "BREAKER">>
        /\ out'.ops = <<>> /\ out'.replies = <<>> /\ out'.audits = <<>>
        /\ files' = files
        /\ UNCHANGED <<circuit_breaker_failures, circuit_breaker_opened_at>>

\* C2: once CIRCUIT_BREAKER_THRESHOLD consecutive calls of the wrapped operation
\* have failed since the breaker was CLOSED, the breaker is OPEN; and every call
\* made while it is OPEN and fewer than CIRCUIT_BREAKER_TIMEOUT seconds after it
\* opened fails with CircuitBreakerOpen without invoking the wrapped operation.
C2_BreakerOpens ==
    /\ [](streak >= CIRCUIT_BREAKER_THRESHOLD => Truthy(circuit_breaker_opened_at))
    /\ [][C2_CoolingStep]_vars

\* Five failures in a row opened the breaker, and a call made later, still inside
\* the cooldown, was short-circuited.
C2_Witness ==
    /\ streak >= CIRCUIT_BREAKER_THRESHOLD
    /\ Truthy(circuit_breaker_opened_at)
    /\ now > circuit_breaker_opened_at[1]
    /\ out.raised = "CircuitBreakerOpen"

\* C3 (as claimed): a file-operation failure inside the body of a command the
\* breaker wraps counts as a breaker failure, so that after such a command the
\* failure counter is at least 1.
C3_FileFailureCounts ==
    (out.cmd \in BreakerCmds /\ InSeq("BODY", out.trace) /\ out.fileErr # "none")
        => circuit_breaker_failures >= 1

\* C4 (as claimed): the first call after the timeout is let through, and if that
\* probe fails the breaker is OPEN again right after it.
C4_ProbeFailureReopens ==
    [][ (CooledDown /\ ReachedBreaker) =>
            /\ InSeq("AUTH", out'.trace)
            /\ (out'.raised # "none" => Truthy(circuit_breaker_opened_at')) ]_vars

\* C4 (amended): the first call after the timeout is let through with the
\* breaker reset, and if that probe fails the breaker stays CLOSED with a failure
\* counter of 1.
C4_ProbeFailureCounted ==
    [][ (CooledDown /\ ReachedBreaker) =>
            /\ InSeq("AUTH", out'.trace)
            /\ (out'.raised # "none" =>
                    /\ circuit_breaker_opened_at' = None
                    /\ circuit_breaker_failures' = 1) ]_vars

\* A probe after the timeout failed and left the breaker CLOSED, counter 1.
C4_Witness ==
    /\ out.branch = "reset"
    /\ out.raised # "none"
    /\ circuit_breaker_opened_at = None
    /\ circuit_breaker_failures = 1

\* C5: a call that reaches the breaker while it is OPEN, CIRCUIT_BREAKER_TIMEOUT
\* seconds or more after it opened, is not short-circuited: the wrapped
\* operation is invoked, and if it succeeds the breaker is CLOSED with failure
\* counter 0.
C5_Recovery ==
    [][ (CooledDown /\ ReachedBreaker) =>
            /\ out'.raised # "CircuitBreakerOpen"
            /\ InSeq("AUTH", out'.trace)
            /\ (out'.raised = "none" =>
                    /\ circuit_breaker_opened_at' = None
                    /\ circuit_breaker_failures' = 0) ]_vars

\* The breaker opened at the first clock reading and a call made exactly
\* CIRCUIT_BREAKER_TIMEOUT seconds later went through and succeeded.
C5_Witness ==
    /\ out.branch = "reset"
    /\ out.raised = "none"
    /\ now = StartTime + CIRCUIT_BREAKER_TIMEOUT
    /\ circuit_breaker_opened_at = None
    /\ circuit_breaker_failures = 0

\* C6 (as claimed): every command meets the Authorization Guard first, and a
\* command from an unauthorized identity changes neither a rate-limit window nor
\* the breaker's failure counter or open-timestamp.
C6_AuthorizationFirst ==
    [][ out' # out =>
            /\ out'.trace[1] = "AUTH"
            /\ (~IsAuthorizedEq(out'.user) =>
                    UNCHANGED <<rate_limit_data, circuit_breaker_failures,
                                circuit_breaker_opened_at>>) ]_vars

\* C7 (as claimed): a command from an unauthorized identity is answered, if at
\* all, with the unauthorized message only, performs no file operation, and
\* leaves an UNAUTHORIZED_ACCESS audit record marked failure.
C7_UnauthorizedOutcome ==
    (out.cmd # "none" /\ ~IsAuthorizedEq(out.user)) =>
        /\ \A i \in 1..Len(out.replies) : out.replies[i] = Msg("Unauthorized")
        /\ out.ops = <<>>
        /\ InSeq(AuditRec("UNAUTHORIZED_ACCESS", out.user, FALSE), out.audits)

\* C8 (as claimed): a command of the operator that fails at a gate or in its
\* body, the transport working, is answered with exactly one reply.
C8_FailureRepliesOnce ==
    (/\ out.user = Operator
     /\ ~out.sendFail
     /\ (out.raised # "none" \/ HasFailureAudit(out)))
        => Len(out.replies) = 1

\* C9 (as claimed): with the transport working, no exception leaves a handler,
\* and a command stopped by the rate limiter, by the open breaker or by a file
\* error leaves an audit record marked failure.
C9_FailuresCaughtAndAudited ==
    (out.cmd # "none" /\ ~out.sendFail) =>
        /\ out.raised = "none"
        /\ (out.trace = <<"RATE">> \/ out.branch = "open" \/ out.fileErr # "none")
              => HasFailureAudit(out)

Token(c) == IF c = "approve" THEN "APPROVED" ELSE "REJECTED"

Answer(c) == IF c = "approve" THEN Msg("Approved") ELSE Msg("Rejected")

C10_DecisionStep ==
    LET c == out'.cmd IN
    /\ (/\ CallStep
        /\ c \in {"approve", "reject"}
        /\ files.approval # Absent
        /\ InSeq("BODY", out'.trace)
        /\ out'.fileErr = "none"
        /\ ~out'.sendFail)
          => /\ files'.response = File(Token(c))
             /\ files'.approval = Absent
             /\ out'.replies = <<Answer(c)>>
    /\ files'.response # files.response
          => /\ c \in {"approve", "reject"}
             /\ InSeq("write_response", out'.ops)
             /\ \/ files'.response = File(Token(c))
                \/ out'.fileErr # "none" /\ files'.response = File("TRUNCATED")

\* C10: when an Approval Request exists and the operator's approve (reject)
\* passes the gates with no file operation failing and the transport working,
\* the Approval Response holds exactly APPROVED (REJECTED), the Approval Request
\* is gone and the one reply states that decision; and the only content a
\* command ever writes to the Approval Response is its own decision token (a
\* write that fails can leave the file truncated, never with another token).
C10_Decision == [][C10_DecisionStep]_vars

\* A reject that found a request: REJECTED written, request deleted, reply sent.
C10_Witness ==
    /\ out.cmd = "reject"
    /\ out.ops = <<"read_approval", "write_response", "unlink_approval">>
    /\ files.response = File("REJECTED")
    /\ files.approval = Absent
    /\ out.replies = <<Msg("Rejected")>>

\* C11: when no Approval Request exists, an approve or reject of the operator
\* that gets to its body replies "No pending approvals" (once, the transport
\* working) and performs no file operation: the Approval Response, the Status
\* Document and the Task Records are as they were.
C11_NoPendingFrame ==
    [][ (/\ CallStep
         /\ out'.cmd \in {"approve", "reject"}
         /\ out'.user = Operator
         /\ InSeq("BODY", out'.trace)
         /\ files.approval = Absent)
            => /\ out'.replies = <<Msg("NoPending")>>
               /\ out'.ops = <<>>
               /\ files' = files ]_vars

\* An approve answered "No pending approvals" with a Status Document, a Task
\* Record and an earlier Approval Response on disk.
C11_Witness ==
    /\ out.cmd = "approve"
    /\ out.replies = <<Msg("NoPending")>>
    /\ files.approval = Absent
    /\ files.status # Absent
    /\ files.response = File("REJECTED")
    /\ DOMAIN files.tasks # {}

\* A /task of the operator that got to its body with an accepted description and
\* whose file operations all succeeded.
TaskDone ==
    /\ CallStep
    /\ out'.cmd = "task"
    /\ out'.user = Operator
    /\ InSeq("BODY", out'.trace)
    /\ out'.args # <<>>
    /\ sanitize_task_description(Join(out'.args)).ok
    /\ out'.fileErr = "none"
    /\ ~out'.sendFail

TaskCreatedMsg(name) == [kind |-> "TaskCreated", ref |-> name]

C12_TaskStep ==
    LET d == sanitize_task_description(Join(out'.args)).value IN
    /\ TaskDone =>
          /\ now \in DOMAIN files'.tasks
          /\ files'.tasks[now] = [kind |-> "TASK", desc |-> d, ref |-> out'.user]
          /\ files'.status = [kind |-> "NEWTASK", desc |-> d, ref |-> now]
          /\ out'.replies = <<TaskCreatedMsg(now)>>
    /\ (CallStep /\ \E i \in 1..Len(out'.replies) : out'.replies[i].kind = "TaskCreated")
          => /\ out'.ops = <<"mkdir", "write_task", "write_status">>
             /\ out'.fileErr = "none"
             /\ now \in DOMAIN files'.tasks
             /\ files'.tasks[now].kind = "TASK"
             /\ files'.status.kind = "NEWTASK"

\* C12: a /task of the authorized identity that passes the gates, with a
\* description the sanitizer accepts and file writes that succeed, creates the
\* Task Record (sanitized description, the identity, status pending), then
\* overwrites the Status Document so that it names that Task Record, and replies
\* once with "Task Created" and the file name; and "Task Created" is never
\* replied unless both writes have completed.
C12_TaskCreated == [][C12_TaskStep]_vars

\* "a b" became a Task Record and the Status Document names it.
C12_Witness ==
    /\ out.cmd = "task"
    /\ out.replies = <<TaskCreatedMsg(now)>>
    /\ now \in DOMAIN files.tasks
    /\ files.tasks[now].desc = <<"a", " ", "b">>
    /\ files.status = [kind |-> "NEWTASK", desc |-> <<"a", " ", "b">>, ref |-> now]

\* The entries of a window that are not older than RATE_LIMIT_WINDOW seconds at t.
NotOlder(window, t) == SelectSeq(window, LAMBDA ts : t - ts <= RATE_LIMIT_WINDOW)

\* C13 (as claimed): a rate-limiter call drops exactly the entries older than
\* RATE_LIMIT_WINDOW seconds, keeping one that is exactly that old; if
\* RATE_LIMIT_COMMANDS or more remain it fails with RateLimitExceeded and the
\* window is the retained entries, otherwise the window is the retained entries
\* followed by the current timestamp and the call goes on.
C13_WindowStep ==
    [][ out' # out =>
            LET u == out'.user
                kept == NotOlder(rate_limit_data[u], now)
            IN  IF Len(kept) >= RATE_LIMIT_COMMANDS
                THEN /\ out'.trace = <<"RATE">>
                     /\ out'.raised = "RateLimitException"
                     /\ rate_limit_data'[u] = kept
                ELSE /\ Len(out'.trace) > 1
                     /\ rate_limit_data'[u] = Append(kept, now) ]_vars

\* A success of the wrapped operation with the breaker CLOSED clears the counter.
C14_SuccessStep ==
    (/\ ReachedBreaker
     /\ ~Truthy(circuit_breaker_opened_at)
     /\ out'.raised = "none")
        => /\ circuit_breaker_failures' = 0
           /\ circuit_breaker_opened_at' = circuit_breaker_opened_at

\* C14: a call of the wrapped operation that succeeds while the breaker is
\* CLOSED sets the failure counter to zero; the counter never exceeds the number
\* of consecutive failed calls, and the breaker is OPEN only when
\* CIRCUIT_BREAKER_THRESHOLD calls in a row have failed, so runs of fewer
\* failures between successes never open it.
C14_SuccessResets ==
    /\ [][C14_SuccessStep]_vars
    /\ [](circuit_breaker_failures <= streak)
    /\ [](Truthy(circuit_breaker_opened_at) => streak >= CIRCUIT_BREAKER_THRESHOLD)

\* A success that found THRESHOLD - 1 failures counted and cleared them, the
\* breaker still CLOSED.
C14_Witness ==
    /\ out.cmd = "status"
    /\ out.branch = "closed"
    /\ out.raised = "none"
    /\ out.counter = CIRCUIT_BREAKER_THRESHOLD - 1
    /\ circuit_breaker_failures = 0
    /\ circuit_breaker_opened_at = None

\* The identity and the four paths are all configured.
Configured ==
    /\ env.TELEGRAM_USER_ID \notin {None, << <<>> >>}
    /\ \A v \in {"CLAUDE_STATUS_FILE", "CLAUDE_APPROVAL_FILE",
                  "CLAUDE_RESPONSE_FILE", "CLAUDE_TASKS_DIR"} :
            env[v] \notin {None, << <<>> >>}

\* C15: if the authorized identity or any of the four required paths is absent
\* (unset or empty), the process exits during startup validation: it never
\* serves and no command handler ever runs; and with no authorized identity
\* configured no identity is treated as authorized.
C15_StartupFatal ==
    /\ ~Configured => (phase # "serving" /\ out = NoCommand)
    /\ (~Configured /\ phase # "starting") => phase = "exited"
    /\ env.TELEGRAM_USER_ID \in {None, << <<>> >>}
          => \A u \in Users : ~IsAuthorizedEq(u)

\* Startup ended in exit with everything set but the tasks directory.
C15_Witness ==
    /\ phase = "exited"
    /\ \A v \in DOMAIN Deployed \ {"CLAUDE_TASKS_DIR"} : env[v] = Deployed[v]
    /\ env.CLAUDE_TASKS_DIR = << <<>> >>

\* C16: with the handlers of one identity in flight together and interleaving
\* only at their awaits, no handler is ever suspended inside its
\* prune-check-append, the identity's window holds every timestamp accepted in
\* the trailing RATE_LIMIT_WINDOW seconds (none is lost, none is added), and
\* those are never more than RATE_LIMIT_COMMANDS.
C16_ConcurrentRateLimit ==
    /\ \A h \in Handlers : inflight[h].pc \in {"idle", "running", "refused"}
    /\ \A u \in Users :
          /\ Fresh(rate_limit_data[u], now) = accepted[u]
          /\ Len(accepted[u]) <= RATE_LIMIT_COMMANDS

\* Two handlers of one identity in flight at once, one let through as the
\* RATE_LIMIT_COMMANDS-th call of the window and one refused.
C16_Witness ==
    \E u \in Users :
        /\ \A h \in Handlers : inflight[h].user = u
        /\ \E h \in Handlers : inflight[h].pc = "running"
        /\ \E h \in Handlers : inflight[h].pc = "refused"
        /\ Len(accepted[u]) = RATE_LIMIT_COMMANDS

\* The text without its leading and trailing whitespace.
Trimmed(s) ==
    LET inner == {i \in 1..Len(s) : s[i] \notin {" ", "\t", "\n"}} IN
    IF inner = {} THEN <<>>
    ELSE SubSeq(s, CHOOSE i \in inner : \A j \in inner : i <= j,
                   CHOOSE i \in inner : \A j \in inner : i >= j)

HasForbidden(t) == \E i \in 1..Len(t) : t[i] \notin AllowedChars

HasTraversal(t) ==
    \/ \E i \in 1..Len(t) : t[i] \in {"/", "\\"}
    \/ \E i \in 1..(Len(t) - 1) : t[i] = "." /\ t[i + 1] = "."

Rejected(error) == [ok |-> FALSE, value |-> <<>>, error |-> error]

\* C17: the sanitizer trims the text and reports the first violation in the
\* order TooLong (more than MAX_TASK_DESCRIPTION_LENGTH characters),
\* ForbiddenChars (a character outside the allowed set), PathTraversal ('/',
\* '\' or '..'); every text it accepts is the trimmed text, is at most
\* MAX_TASK_DESCRIPTION_LENGTH characters of allowed characters with no '/',
\* '\' or '..', and comes back unchanged when sanitized again.
C17_Sanitizer ==
    probe.result # None =>
        LET t == Trimmed(probe.text)
            r == probe.result[1]
            long == Len(t) > MAX_TASK_DESCRIPTION_LENGTH
        IN
        /\ long => r = Rejected("TooLong")
        /\ (~long /\ HasForbidden(t)) => r = Rejected("ForbiddenChars")
        /\ (~long /\ ~HasForbidden(t) /\ HasTraversal(t)) => r = Rejected("PathTraversal")
        /\ (~long /\ ~HasForbidden(t) /\ ~HasTraversal(t) /\ t # <<>>)
              => r = [ok |-> TRUE, value |-> t, error |-> "none"]
        /\ r.ok => /\ r.value = t
                   /\ Len(r.value) <= MAX_TASK_DESCRIPTION_LENGTH
                   /\ ~HasForbidden(r.value)
                   /\ ~HasTraversal(r.value)
        /\ probe.again # None => probe.again[1] = r

\* A text of MAX_TASK_DESCRIPTION_LENGTH + 2 characters was accepted once
\* trimmed, and accepted unchanged the second time.
C17_Witness ==
    /\ Len(probe.text) = MAX_TASK_DESCRIPTION_LENGTH + 2
    /\ probe.result # None
    /\ probe.again # None
    /\ probe.again[1].ok
    /\ Len(probe.again[1].value) = MAX_TASK_DESCRIPTION_LENGTH

\* C18 (as claimed): a /task that succeeds writes a Task Record that did not
\* exist before, and no command overwrites, modifies or deletes an existing
\* Task Record, two /task commands at one clock reading included.
C18_TaskRecordsImmutable ==
    [][ /\ \A name \in DOMAIN files.tasks :
              /\ name \in DOMAIN files'.tasks
              /\ files'.tasks[name] = files.tasks[name]
        /\ (CallStep /\ out'.cmd = "task" /\ InSeq("write_task", out'.ops)
                /\ out'.fileErr = "none")
              => now \notin DOMAIN files.tasks ]_vars

\* C19: with one command handled at a time, in every reachable state the
\* breaker's open-timestamp is set if and only if the failure counter is at
\* least CIRCUIT_BREAKER_THRESHOLD, and the counter never exceeds it.
C19_BreakerInvariant ==
    /\ (circuit_breaker_opened_at # None)
          <=> (circuit_breaker_failures >= CIRCUIT_BREAKER_THRESHOLD)
    /\ circuit_breaker_failures <= CIRCUIT_BREAKER_THRESHOLD

\* The failure that brought the counter to the threshold has just set the
\* open-timestamp, after the breaker had opened and recovered once before.
C19_Witness ==
    /\ out.branch = "closed"
    /\ out.raised # "none"
    /\ circuit_breaker_failures = CIRCUIT_BREAKER_THRESHOLD
    /\ circuit_breaker_opened_at = <<StartTime + CIRCUIT_BREAKER_TIMEOUT>>

\* A decision of the operator whose read of the request or write of the response
\* failed (the request not having vanished under it).
DecisionFailed ==
    /\ CallStep
    /\ out'.cmd \in {"approve", "reject"}
    /\ out'.fileErr \notin {"none", "NotFound"}
    /\ out'.ops \in {<<"read_approval">>, <<"read_approval", "write_response">>}

\* C20 (as claimed): approve and reject delete the Approval Request only after
\* the Approval Response holds the decision token; if reading the request or
\* writing the response fails, the Approval Request still exists, the Approval
\* Response is as it was before the command, and the operator gets the error
\* reply, not a decision reply.
C20_FailedDecision ==
    [][ /\ DecisionFailed =>
              /\ files'.approval = files.approval
              /\ files'.approval # Absent
              /\ files'.response = files.response
              /\ (~out'.sendFail => out'.replies = <<safe_error_message>>)
        /\ (CallStep /\ InSeq("unlink_approval", out'.ops))
              => files'.response = File(Token(out'.cmd)) ]_vars

====
